---- MODULE Spec2Model ----
(***************************************************************************)
(* A model of src/main.ts: the key store, the ServerState cache, the       *)
(* refresh pass of autoRefreshData / getAggregatedData, the HTTP handlers  *)
(* that read the cache or change the key set, and fetchApiKeyData with its *)
(* retry on HTTP 401. batchProcess, the building of the snapshot and the   *)
(* loop of handleBatchImport are also followed one call at a time, each in *)
(* a specification of its own.                                             *)
(*                                                                         *)
(* One step of the model is one run of the event loop between two          *)
(* suspension points (await of the store, of the network, of a timer).     *)
(* update_time (a wall-clock string) is left out of the snapshot.          *)
(***************************************************************************)
EXTENDS Integers, Sequences, FiniteSets, Bags, TLC

\* ------------------------------------------------------------ bounds

\* Number of key ids the store can hold.
MaxIds == 1
\* In-flight autoRefreshData invocations the model can represent.
MaxPasses == 2
\* Requests being handled at the same time (those suspended on the store).
MaxReqs == 1
\* Longest array body of a batch import.
MaxBatch == 1
\* Longest item list batchProcess is called with, and largest concurrency.
MaxItems == 5
MaxConc == 2
\* Largest number of keys a snapshot is built from.
MaxResults == 3
\* Key ids and requests at the same time when only single adds are made
\* (SpecAdds).
MaxKeyIds == 2
MaxKeyReqs == 2
\* Longest array body of a batch import followed on its own (SpecImport).
MaxImport == 3

Ids == 1..MaxIds

\* ------------------------------------------------------------ values

NULL == <<>>
Some(x) == <<x>>

\* A JSON value given as "key": a string (its characters) or not a string.
Str(cs) == [isString |-> TRUE, chars |-> cs]
KeyA == Str(<<"a", "b", "c", "d", "e", "f", "g", "h", "i", "j", "k", "l">>)
KeyB == Str(<<"a", "b", "c", "d", "e">>)
KeyC == Str(<<"a", "b", "c">>)
\* The JSON number 123: handleSingleKeyAdd and handleBatchImport cast the body
\* to {key: string} without checking the type, so it is stored as it is.
KeyNum == [isString |-> FALSE, chars |-> <<>>]
EmptyStr == Str(<<>>)
StoredKeys == {KeyA, KeyNum}

\* JavaScript truthiness of a key value ("" is falsy, 123 is truthy).
Truthy(k) == IF k.isString THEN Len(k.chars) > 0 ELSE TRUE

KEY_MASK_PREFIX_LENGTH == 4
KEY_MASK_SUFFIX_LENGTH == 4

Min(a, b) == IF a <= b THEN a ELSE b
Max(a, b) == IF a >= b THEN a ELSE b

\* String.prototype.substring(0, n).
Prefix(cs, n) == SubSeq(cs, 1, Min(n, Len(cs)))

Dots == <<".", ".", ".">>

\* maskApiKey on a string; on a value that is no string key.substring is not
\* a function and the call throws (MaskThrows).
maskApiKey(key) ==
    IF Len(key.chars) <= KEY_MASK_PREFIX_LENGTH + KEY_MASK_SUFFIX_LENGTH
    THEN Prefix(key.chars, KEY_MASK_PREFIX_LENGTH) \o Dots
    ELSE Prefix(key.chars, KEY_MASK_PREFIX_LENGTH) \o Dots
            \o SubSeq(key.chars, Len(key.chars) - KEY_MASK_SUFFIX_LENGTH + 1,
                      Len(key.chars))

MaskThrows(key) == ~key.isString

TypeErrorMsg == "key.substring is not a function"

\* The two variants of ApiKeyResult.
UsageRecord(id, key, used, allowance) ==
    [id |-> id, key |-> maskApiKey(key),
     orgTotalTokensUsed |-> used, totalAllowance |-> allowance]
ErrorRecord(id, key, msg) ==
    [id |-> id, key |-> maskApiKey(key), error |-> msg]

isApiUsageData(r) == ~("error" \in DOMAIN r)

\* ------------------------------------------------------------ state

VARIABLES
    store,       \* Deno KV under ["api_keys", id]: id -> key value
    cachedData,  \* ServerState.cachedData: NULL or Some(snapshot)
    lastError,   \* ServerState.lastError: NULL or Some(message)
    isUpdating,  \* ServerState.isUpdating
    phase,       \* startServer: "boot", "awaitInitial", "serving"
    passes,      \* the autoRefreshData invocations in flight
    reqs,        \* bag of requests suspended on a store call
    resp,        \* the response sent by the last step (NoResp: none)
    trig,        \* who called autoRefreshData in the last step ("none")
    fx,          \* one call of fetchApiKeyData (SpecFetch)
    bp,          \* one call of batchProcess (SpecBatch)
    ag,          \* one run of the aggregation of getAggregatedData (SpecAgg)
    im           \* the loop of one call of handleBatchImport (SpecImport)

mainVars == <<store, cachedData, lastError, isUpdating, phase, passes,
              reqs, resp, trig>>
vars == <<store, cachedData, lastError, isUpdating, phase, passes,
          reqs, resp, trig, fx, bp, ag, im>>

\* ------------------------------------------------------------ key store

\* getAllKeys: kv.list yields the entries in key order, that is by id.
RECURSIVE ListFrom(_, _)
ListFrom(kv, i) ==
    IF \A j \in DOMAIN kv : j < i THEN <<>>
    ELSE (IF i \in DOMAIN kv THEN <<[id |-> i, key |-> kv[i]]>> ELSE <<>>)
            \o ListFrom(kv, i + 1)

getAllKeys == ListFrom(store, 1)

\* addKey / deleteKey: kv.set and kv.delete.
addKey(kv, id, key) == [i \in DOMAIN kv \cup {id} |-> IF i = id THEN key ELSE kv[i]]
deleteKey(kv, id) == [i \in DOMAIN kv \ {id} |-> kv[i]]

\* apiKeyExists on a listing of the store.
apiKeyExists(keys, key) == \E i \in 1..Len(keys) : keys[i].key = key

\* Messages of the errors kv.list can reject with.
StoreErrors == {"kv unavailable"}

\* ------------------------------------------------------------ aggregation

\* A faulty remaining: the difference is not clamped at 0.
RemainingUnclamped(r) == r.totalAllowance - r.orgTotalTokensUsed

\* remaining, as computed at lines 825 and 832.
Remaining(r) == Max(0, r.totalAllowance - r.orgTotalTokensUsed)

\* A faulty comparator, a.remaining - b.remaining: the least remaining first.
RECURSIVE InsertByRemainingAscending(_, _)
InsertByRemainingAscending(sorted, r) ==
    IF sorted = <<>> THEN <<r>>
    ELSE IF Remaining(Head(sorted)) <= Remaining(r)
         THEN <<Head(sorted)>> \o InsertByRemainingAscending(Tail(sorted), r)
         ELSE <<r>> \o sorted

\* Array.prototype.sort((a, b) => b.remaining - a.remaining): stable.
RECURSIVE InsertByRemaining(_, _)
InsertByRemaining(sorted, r) ==
    IF sorted = <<>> THEN <<r>>
    ELSE IF Remaining(Head(sorted)) >= Remaining(r)
         THEN <<Head(sorted)>> \o InsertByRemaining(Tail(sorted), r)
         ELSE <<r>> \o sorted

RECURSIVE SortByRemaining(_)
SortByRemaining(rs) ==
    IF rs = <<>> THEN <<>>
    ELSE InsertByRemaining(SortByRemaining(SubSeq(rs, 1, Len(rs) - 1)), rs[Len(rs)])

emptyTotals == [total_orgTotalTokensUsed |-> 0, total_totalAllowance |-> 0, totalRemaining |-> 0]

emptyResponse == [total_count |-> 0, totals |-> emptyTotals, data |-> <<>>]

\* A faulty reduce: the allowance is added to the total of the tokens used.
RECURSIVE ReduceTotalsSwapped(_, _)
ReduceTotalsSwapped(valid, acc) ==
    IF valid = <<>> THEN acc
    ELSE ReduceTotalsSwapped(Tail(valid),
            [total_orgTotalTokensUsed |->
                 acc.total_orgTotalTokensUsed + Head(valid).totalAllowance,
             total_totalAllowance |->
                 acc.total_totalAllowance + Head(valid).totalAllowance,
             totalRemaining |-> acc.totalRemaining + Remaining(Head(valid))])

\* A faulty reduce: the difference of the two totals is clamped, not the
\* remaining of each key.
RECURSIVE ReduceTotalsClampsSum(_, _)
ReduceTotalsClampsSum(valid, acc) ==
    IF valid = <<>> THEN acc
    ELSE ReduceTotalsClampsSum(Tail(valid),
            [total_orgTotalTokensUsed |->
                 acc.total_orgTotalTokensUsed + Head(valid).orgTotalTokensUsed,
             total_totalAllowance |->
                 acc.total_totalAllowance + Head(valid).totalAllowance,
             totalRemaining |->
                 Max(0, acc.total_totalAllowance + Head(valid).totalAllowance
                          - acc.total_orgTotalTokensUsed - Head(valid).orgTotalTokensUsed)])

\* validResults.reduce(..., emptyResponse.totals)
RECURSIVE ReduceTotals(_, _)
ReduceTotals(valid, acc) ==
    IF valid = <<>> THEN acc
    ELSE ReduceTotals(Tail(valid),
            [total_orgTotalTokensUsed |->
                 acc.total_orgTotalTokensUsed + Head(valid).orgTotalTokensUsed,
             total_totalAllowance |->
                 acc.total_totalAllowance + Head(valid).totalAllowance,
             totalRemaining |-> acc.totalRemaining + Remaining(Head(valid))])

IsError(r) == "error" \in DOMAIN r

\* A faulty getAggregatedData: only the keys whose fetch succeeded are counted.
AggregateCountsValid(keyPairs, results) ==
    LET validResults == SelectSeq(results, isApiUsageData)
        sortedValid == SortByRemaining(validResults)
    IN  [total_count |-> Len(validResults),
         totals |-> ReduceTotals(validResults, emptyTotals),
         data |-> sortedValid \o SelectSeq(results, IsError)]

\* A faulty getAggregatedData: the keys whose fetch failed are left out of data.
AggregateDropsErrors(keyPairs, results) ==
    LET validResults == SelectSeq(results, isApiUsageData)
        sortedValid == SortByRemaining(validResults)
    IN  [total_count |-> Len(keyPairs),
         totals |-> ReduceTotals(validResults, emptyTotals),
         data |-> sortedValid]

\* The snapshot getAggregatedData builds from the listing and the results of
\* batchProcess (lines 823-842).
Aggregate(keyPairs, results) ==
    LET validResults == SelectSeq(results, isApiUsageData)
        sortedValid == SortByRemaining(validResults)
    IN  [total_count |-> Len(keyPairs),
         totals |-> ReduceTotals(validResults, emptyTotals),
         data |-> sortedValid \o SelectSeq(results, IsError)]

\* What one fetchApiKeyData call of a refresh pass can resolve to: a usage
\* record (used, allowance) or an error record.
UsagePairs == {<<1, 3>>, <<5, 2>>}
FetchErrors == {"Failed to fetch"}

FetchOutcomes(kp) ==
    {UsageRecord(kp.id, kp.key, p[1], p[2]) : p \in UsagePairs}
        \cup {ErrorRecord(kp.id, kp.key, m) : m \in FetchErrors}

\* batchProcess(keyPairs, fetch, 10, 100) when every call resolves: one
\* result per item, in the order of the items.
BATCH_CONCURRENCY == 10

BatchResults(keyPairs) ==
    LET all == UNION {FetchOutcomes(keyPairs[i]) : i \in 1..Len(keyPairs)}
    IN  {rs \in [1..Len(keyPairs) -> all] :
            \A i \in 1..Len(keyPairs) : rs[i] \in FetchOutcomes(keyPairs[i])}

\* Whether a call of the first chunk throws before its first await (the
\* rejection reaches Promise.all in the step that started the chunk), and
\* whether a call of a later chunk does.
FirstChunkThrows(keyPairs) ==
    \E i \in 1..Min(Len(keyPairs), BATCH_CONCURRENCY) : MaskThrows(keyPairs[i].key)
LaterChunkThrows(keyPairs) ==
    \E i \in 1..Len(keyPairs) : i > BATCH_CONCURRENCY /\ MaskThrows(keyPairs[i].key)


\* ------------------------------------------------------------ ServerState

\* A faulty updateCache: the message of an earlier failure is kept.
updateCacheKeepsError(data) ==
    /\ cachedData' = Some(data)
    /\ isUpdating' = FALSE
    /\ UNCHANGED lastError

updateCache(data) ==
    /\ cachedData' = Some(data)
    /\ lastError' = NULL
    /\ isUpdating' = FALSE

\* A faulty setError: the flag stays set after a failed refresh.
setErrorKeepsUpdating(errorMessage) ==
    /\ lastError' = Some(errorMessage)
    /\ UNCHANGED <<cachedData, isUpdating>>

\* A faulty setError: a failed refresh drops the stored snapshot.
setErrorDropsSnapshot(errorMessage) ==
    /\ lastError' = Some(errorMessage)
    /\ isUpdating' = FALSE
    /\ cachedData' = NULL

setError(errorMessage) ==
    /\ lastError' = Some(errorMessage)
    /\ isUpdating' = FALSE
    /\ UNCHANGED cachedData

\* A faulty startUpdate: starting a refresh forgets the last error.
startUpdateClearsError ==
    /\ isUpdating' = TRUE
    /\ lastError' = NULL
    /\ UNCHANGED cachedData

\* A faulty startUpdate: the flag is not set.
startUpdateLeavesFlag == UNCHANGED <<cachedData, lastError, isUpdating>>

startUpdate ==
    /\ isUpdating' = TRUE
    /\ UNCHANGED <<cachedData, lastError>>

\* ------------------------------------------------------------ responses

NoResp == [op |-> "none", status |-> 0, data |-> NULL, error |-> "", added |-> 0, skipped |-> 0]

Response(op, status, data, error) ==
    [op |-> op, status |-> status, data |-> data, error |-> error, added |-> 0, skipped |-> 0]

\* A faulty handleGetData: a refresh in progress hides the snapshot.
handleGetDataBlocksOnUpdate ==
    IF isUpdating
    THEN Response("getData", 503, NULL, "updating")
    ELSE IF cachedData # NULL
         THEN Response("getData", 200, cachedData, "")
         ELSE IF lastError # NULL /\ lastError[1] # ""
              THEN Response("getData", 500, NULL, lastError[1])
              ELSE Response("getData", 503, NULL, "no data")

\* A faulty handleGetData: the error is looked at before the snapshot.
handleGetDataErrorFirst ==
    IF lastError # NULL /\ lastError[1] # ""
    THEN Response("getData", 500, NULL, lastError[1])
    ELSE IF cachedData # NULL
         THEN Response("getData", 200, cachedData, "")
         ELSE IF isUpdating
              THEN Response("getData", 503, NULL, "updating")
              ELSE Response("getData", 503, NULL, "no data")

\* handleGetData: the snapshot if there is one, else the error if there is
\* one (a JavaScript truthiness test: "" counts as no error), else 503.
handleGetData ==
    IF cachedData # NULL
    THEN Response("getData", 200, cachedData, "")
    ELSE IF lastError # NULL /\ lastError[1] # ""
         THEN Response("getData", 500, NULL, lastError[1])
         ELSE IF isUpdating
              THEN Response("getData", 503, NULL, "updating")
              ELSE Response("getData", 503, NULL, "no data")

\* ------------------------------------------------------------ refresh

NewPass(who) == [pc |-> "listing", keyPairs |-> <<>>, awaited |-> (who = "startup")]

\* A faulty autoRefreshData: no test of the flag.
autoRefreshDataUnguarded(who) ==
    /\ trig' = who
    /\ Len(passes) < MaxPasses
    /\ startUpdate
    /\ passes' = Append(passes, NewPass(who))

\* autoRefreshData up to its first suspension point, the kv.list of
\* getAllKeys: return if a refresh is in progress, else set the flag and
\* start a pass. who names the caller.
autoRefreshData(who) ==
    /\ trig' = who
    /\ IF isUpdating
       THEN UNCHANGED <<cachedData, lastError, isUpdating, passes>>
       ELSE /\ Len(passes) < MaxPasses
            /\ startUpdate
            /\ passes' = Append(passes, NewPass(who))

\* A step that does not call autoRefreshData.
NoRefresh == trig' = "none" /\ UNCHANGED <<cachedData, lastError, isUpdating, passes>>

RemoveAt(seq, i) == SubSeq(seq, 1, i - 1) \o SubSeq(seq, i + 1, Len(seq))

\* startServer resumes after "await autoRefreshData()" when the pass it
\* awaits ends: setInterval and serve.
PassEnds(i) ==
    /\ passes' = RemoveAt(passes, i)
    /\ phase' = IF passes[i].awaited THEN "serving" ELSE phase

\* autoRefreshData after getAggregatedData returned data / threw.
PassSucceeds(i, data) == updateCache(data) /\ PassEnds(i)
\* A faulty autoRefreshData: the catch clears the flag and stores no message.
PassFailsSilently(i, msg) ==
    /\ isUpdating' = FALSE
    /\ UNCHANGED <<cachedData, lastError>>
    /\ PassEnds(i)

PassFails(i, msg) == setError(msg) /\ PassEnds(i)

\* getAllKeys of a pass rejects: the catch of autoRefreshData runs.
ListThrows(i) ==
    /\ passes[i].pc = "listing"
    /\ \E msg \in StoreErrors : PassFails(i, msg)
    /\ resp' = NoResp /\ trig' = "none"
    /\ UNCHANGED <<store, reqs, fx, bp, ag, im>>

\* A faulty getAggregatedData: an empty key set is reported as a failure.
ListReturnsEmptyIsError(i) ==
    /\ passes[i].pc = "listing"
    /\ LET keyPairs == getAllKeys
       IN  IF Len(keyPairs) = 0
           THEN PassFails(i, "No API keys")
           ELSE IF FirstChunkThrows(keyPairs)
                THEN PassFails(i, TypeErrorMsg)
                ELSE /\ passes' = [passes EXCEPT ![i].pc = "fetching",
                                                 ![i].keyPairs = keyPairs]
                     /\ UNCHANGED <<cachedData, lastError, isUpdating, phase>>
    /\ resp' = NoResp /\ trig' = "none"
    /\ UNCHANGED <<store, reqs, fx, bp, ag, im>>

\* getAllKeys of a pass returns: an empty listing is answered at once; else
\* batchProcess starts the calls of its first chunk, and a call that throws
\* in maskApiKey rejects the batch before anything is awaited.
ListReturns(i) ==
    /\ passes[i].pc = "listing"
    /\ LET keyPairs == getAllKeys
       IN  IF Len(keyPairs) = 0
           THEN PassSucceeds(i, emptyResponse)
           ELSE IF FirstChunkThrows(keyPairs)
                THEN PassFails(i, TypeErrorMsg)
                ELSE /\ passes' = [passes EXCEPT ![i].pc = "fetching",
                                                 ![i].keyPairs = keyPairs]
                     /\ UNCHANGED <<cachedData, lastError, isUpdating, phase>>
    /\ resp' = NoResp /\ trig' = "none"
    /\ UNCHANGED <<store, reqs, fx, bp, ag, im>>

\* A faulty getAggregatedData: the keys are listed again when the fetches have
\* returned, and the snapshot is built for the keys stored then.
BatchReturnsRelists(i) ==
    /\ passes[i].pc = "fetching"
    /\ IF LaterChunkThrows(getAllKeys)
       THEN PassFails(i, TypeErrorMsg)
       ELSE \E results \in BatchResults(getAllKeys) :
                PassSucceeds(i, Aggregate(getAllKeys, results))
    /\ resp' = NoResp /\ trig' = "none"
    /\ UNCHANGED <<store, reqs, fx, bp, ag, im>>

\* batchProcess of a pass settles: the snapshot is built and stored.
BatchReturns(i) ==
    /\ passes[i].pc = "fetching"
    /\ IF LaterChunkThrows(passes[i].keyPairs)
       THEN PassFails(i, TypeErrorMsg)
       ELSE \E results \in BatchResults(passes[i].keyPairs) :
                PassSucceeds(i, Aggregate(passes[i].keyPairs, results))
    /\ resp' = NoResp /\ trig' = "none"
    /\ UNCHANGED <<store, reqs, fx, bp, ag, im>>

\* ------------------------------------------------------------ startServer

\* A faulty startServer: autoRefreshData is called and not awaited.
StartServerNoAwait ==
    /\ phase = "boot"
    /\ autoRefreshData("startup")
    /\ phase' = "serving"
    /\ resp' = NoResp
    /\ UNCHANGED <<store, reqs, fx, bp, ag, im>>

\* startServer up to "await autoRefreshData()".
StartServer ==
    /\ phase = "boot"
    /\ autoRefreshData("startup")
    /\ phase' = "awaitInitial"
    /\ resp' = NoResp
    /\ UNCHANGED <<store, reqs, fx, bp, ag, im>>

\* The setInterval callback.
TimerTick ==
    /\ phase = "serving"
    /\ autoRefreshData("timer")
    /\ resp' = NoResp
    /\ UNCHANGED <<store, phase, reqs, fx, bp, ag, im>>

\* GET /api/data.
GetData ==
    /\ phase = "serving"
    /\ resp' = handleGetData
    /\ NoRefresh
    /\ UNCHANGED <<store, phase, reqs, fx, bp, ag, im>>


\* ------------------------------------------------------------ mutations

\* A request body {key: ...}, or an array item: with or without "key".
NoKeyBody == [hasKey |-> FALSE, key |-> EmptyStr]
KeyBody(k) == [hasKey |-> TRUE, key |-> k]
Bodies == {NoKeyBody} \cup {KeyBody(k) : k \in StoredKeys \cup {EmptyStr}}

\* Array bodies of POST /api/keys.
BatchBodies == UNION {[1..n -> Bodies] : n \in 0..MaxBatch}

\* Adds a suspended request may still make: at most one per item left, each
\* needing a free id.
PendingAdds(r) ==
    IF r.op = "add" THEN 1 ELSE IF r.op = "import" THEN Len(r.rest) ELSE 0

RECURSIVE BagSum(_, _)
BagSum(B, ops) ==
    IF ops = {} THEN 0
    ELSE LET r == CHOOSE x \in ops : TRUE
         IN  B[r] * PendingAdds(r) + BagSum(B, ops \ {r})

\* The part of the program a specification follows: the key ids in use are
\* among ids, at most n requests are suspended at a time, and every add still
\* to be made has a free id among ids.
Fits(ids, n) ==
    /\ DOMAIN store \subseteq ids
    /\ BagCardinality(reqs) <= n
    /\ Cardinality(DOMAIN store) + BagSum(reqs, BagToSet(reqs)) <= Cardinality(ids)

Suspend(r) == reqs' = reqs (+) SetToBag({r})
Resume(r) == reqs' = reqs (-) SetToBag({r})

\* handleSingleKeyAdd up to "await addKey": the body is checked, then
\* apiKeyExists reads the store.
SingleKeyAddBegin(body) ==
    /\ phase = "serving"
    /\ IF ~body.hasKey
       THEN resp' = Response("add", 400, NULL, "key is required") /\ UNCHANGED reqs
       ELSE IF ~Truthy(body.key)
            THEN resp' = Response("add", 400, NULL, "key cannot be empty") /\ UNCHANGED reqs
            ELSE IF apiKeyExists(getAllKeys, body.key)
                 THEN resp' = Response("add", 409, NULL, "API key already exists")
                      /\ UNCHANGED reqs
                 ELSE /\ Suspend([op |-> "add", key |-> body.key])
                      /\ resp' = NoResp
    /\ NoRefresh
    /\ UNCHANGED <<store, phase, fx, bp, ag, im>>

\* handleSingleKeyAdd from the kv.set of addKey on: the key is stored under
\* the id `key-${Date.now()}-${random}` (any id not in use), autoRefreshData
\* is called and not awaited, 200 is returned.
SingleKeyAddEnd(r, id) ==
    /\ BagIn(r, reqs) /\ r.op = "add"
    /\ id \notin DOMAIN store
    /\ store' = addKey(store, id, r.key)
    /\ Resume(r)
    /\ autoRefreshData("request")
    /\ resp' = Response("add", 200, NULL, "")
    /\ UNCHANGED <<phase, fx, bp, ag, im>>

\* handleDeleteKey; id 0 stands for the empty id of the path /api/keys/.
handleDeleteKey(id) ==
    /\ phase = "serving"
    /\ IF id = 0
       THEN /\ resp' = Response("delete", 400, NULL, "Key ID is required")
            /\ NoRefresh
            /\ UNCHANGED store
       ELSE /\ store' = deleteKey(store, id)
            /\ autoRefreshData("request")
            /\ resp' = Response("delete", 200, NULL, "")
    /\ UNCHANGED <<phase, reqs, fx, bp, ag, im>>

\* handleBatchDeleteKeys; an empty set stands for a missing or empty ids.
handleBatchDeleteKeys(ids) ==
    /\ phase = "serving"
    /\ IF ids = {}
       THEN /\ resp' = Response("batchDelete", 400, NULL, "ids array is required")
            /\ NoRefresh
            /\ UNCHANGED store
       ELSE /\ store' = [i \in DOMAIN store \ ids |-> store[i]]
            /\ autoRefreshData("request")
            /\ resp' = Response("batchDelete", 200, NULL, "")
    /\ UNCHANGED <<phase, reqs, fx, bp, ag, im>>

\* handleRefreshSingleKey up to "await fetch" of fetchApiKeyData: kv.get
\* reads the store, an id that is not there is answered 404; else
\* fetchApiKeyData is called, and a throw of maskApiKey ends in the catch of
\* the handler, answered 500. The route gives the handler an id that is not
\* empty.
RefreshKeyBegin(id) ==
    /\ phase = "serving"
    /\ IF id \notin DOMAIN store \/ ~Truthy(store[id])
       THEN resp' = Response("refreshKey", 404, NULL, "Key not found") /\ UNCHANGED reqs
       ELSE IF MaskThrows(store[id])
            THEN resp' = Response("refreshKey", 500, NULL, TypeErrorMsg) /\ UNCHANGED reqs
            ELSE /\ Suspend([op |-> "refresh", id |-> id, key |-> store[id]])
                 /\ resp' = NoResp
    /\ NoRefresh
    /\ UNCHANGED <<store, phase, fx, bp, ag, im>>

\* handleRefreshSingleKey from the return of fetchApiKeyData on: 200 with the
\* record the call resolved to.
RefreshKeyEnd(r) ==
    /\ BagIn(r, reqs) /\ r.op = "refresh"
    /\ Resume(r)
    /\ \E record \in FetchOutcomes([id |-> r.id, key |-> r.key]) :
          resp' = Response("refreshKey", 200, Some(record), "")
    /\ NoRefresh
    /\ UNCHANGED <<store, phase, fx, bp, ag, im>>

\* The loop of handleBatchImport over the items not yet looked at, up to the
\* next "await addKey": the items left, the first being the one to add (none
\* left: the loop is over), and the count of the items skipped on the way.
RECURSIVE ImportScan(_, _, _)
ImportScan(items, existingKeys, skipped) ==
    IF items = <<>> THEN [rest |-> <<>>, skipped |-> skipped]
    ELSE IF ~Head(items).hasKey
         THEN ImportScan(Tail(items), existingKeys, skipped)
         ELSE IF ~Truthy(Head(items).key) \/ Head(items).key \in existingKeys
              THEN ImportScan(Tail(items), existingKeys,
                              IF Truthy(Head(items).key) THEN skipped + 1 ELSE skipped)
              ELSE [rest |-> items, skipped |-> skipped]

ImportResponse(r) ==
    [Response("import", 200, NULL, "") EXCEPT !.added = r.added, !.skipped = r.skipped]

\* A faulty handleBatchImport: the refresh is called whatever was added.
ImportContinueAlwaysRefreshes(r) ==
    IF r.rest = <<>>
    THEN /\ autoRefreshData("request")
         /\ resp' = ImportResponse(r)
         /\ UNCHANGED <<phase, fx, bp, ag, im>>
    ELSE /\ NoRefresh
         /\ resp' = NoResp
         /\ UNCHANGED <<phase, fx, bp, ag, im>>

\* The loop has stopped with the locals r: respond when the items are done
\* (refreshing if a key was added), else wait for addKey.
ImportContinue(r) ==
    IF r.rest = <<>>
    THEN /\ IF r.added > 0 THEN autoRefreshData("request") ELSE NoRefresh
         /\ resp' = ImportResponse(r)
         /\ UNCHANGED <<phase, fx, bp, ag, im>>
    ELSE /\ NoRefresh
         /\ resp' = NoResp
         /\ UNCHANGED <<phase, fx, bp, ag, im>>

\* The locals of the handler when the loop stops: the items left (the first
\* is the one being added; none: the loop is over), the keys seen, the counts.
ImportReq(scan, existingKeys, added) ==
    [op |-> "import", rest |-> scan.rest, existingKeys |-> existingKeys,
     added |-> added, skipped |-> scan.skipped]

\* The loop from its start to the first "await addKey" (or to its end).
ImportFirst(items, existingKeys) ==
    ImportReq(ImportScan(items, existingKeys, 0), existingKeys, 0)

\* A faulty handleBatchImport: the key just added is not remembered.
KeysSeenForgets(r) == r.existingKeys

\* existingKeys.add(key), line 980.
KeysSeen(r) == r.existingKeys \cup {Head(r.rest).key}

\* The loop from the return of addKey to the next "await addKey" (or to its
\* end): the key is remembered and counted, the items after it are scanned.
ImportNext(r) ==
    ImportReq(ImportScan(Tail(r.rest), KeysSeen(r), r.skipped), KeysSeen(r), r.added + 1)

\* handleBatchImport up to its first "await addKey".
BatchImportBegin(items) ==
    /\ phase = "serving"
    /\ LET r == ImportFirst(items, {getAllKeys[i].key : i \in 1..Len(getAllKeys)})
       IN  /\ ImportContinue(r)
           /\ IF r.rest = <<>> THEN UNCHANGED reqs ELSE Suspend(r)
    /\ UNCHANGED store

\* handleBatchImport from one kv.set of addKey to the next, or to the end.
BatchImportStep(r, id) ==
    /\ BagIn(r, reqs) /\ r.op = "import"
    /\ id \notin DOMAIN store
    /\ store' = addKey(store, id, Head(r.rest).key)
    /\ ImportContinue(ImportNext(r))
    /\ IF ImportNext(r).rest = <<>>
       THEN Resume(r)
       ELSE reqs' = (reqs (-) SetToBag({r})) (+) SetToBag({ImportNext(r)})

\* The loop of one call handleBatchImport(items), from the listing of the
\* store (startKeys) to the response: the loop reads the store once, before
\* the first item, so what it adds and skips depends on nothing else.
\* stored lists the keys given to addKey, in order.
ImIdle ==
    [pc |-> "idle", items |-> <<>>, startKeys |-> {}, stored |-> <<>>,
     r |-> ImportFirst(<<>>, {})]

ImportPc(r) == IF r.rest = <<>> THEN "done" ELSE "adding"

\* getAllKeys returns and the loop runs to its first "await addKey".
ImportCall ==
    /\ im.pc = "call"
    /\ LET r == ImportFirst(im.items, im.startKeys)
       IN  im' = [im EXCEPT !.pc = ImportPc(r), !.r = r]
    /\ UNCHANGED <<mainVars, fx, bp, ag>>

\* addKey returns and the loop runs to the next "await addKey".
ImportAdds ==
    /\ im.pc = "adding"
    /\ im' = [im EXCEPT !.pc = ImportPc(ImportNext(im.r)), !.r = ImportNext(im.r),
                        !.stored = Append(im.stored, Head(im.r.rest).key)]
    /\ UNCHANGED <<mainVars, fx, bp, ag>>

\* ------------------------------------------------------------ fetchApiKeyData

\* One call fetchApiKeyData(id, key) and the calls it makes of itself.
\* startDate, endDate and usedRatio of the usage record are left out.
maxRetries == 2

\* What fetch() can settle to: status 0 stands for a rejection (connection
\* error, timeout), any other number for a response with that status.
Statuses == {0, 200, 201, 401, 403, 500}
ResponseOk(status) == status >= 200 /\ status <= 299

\* What "await response.json()" and the reading of the body can give: a
\* rejection (no JSON), the JSON value null, an object without usage, a usage
\* without standard, or a usage.standard whose two numbers may be absent.
Absent == <<>>
UsageBodies == {[kind |-> "usage", used |-> u, allowance |-> a] : u \in {Absent, <<5>>}, a \in {Absent, <<0>>, <<2>>}}
PlainBody(kind) == [kind |-> kind, used |-> Absent, allowance |-> Absent]
BodiesOf200 == {PlainBody(k) : k \in {"unparsable", "null", "noUsage", "noStandard"}} \cup UsageBodies
NoBody == PlainBody("none")

\* value || 0
OrZero(v) == IF v = Absent THEN 0 ELSE v[1]

\* The keys a call is made with.
FetchKeys == {KeyA, KeyB, KeyC, KeyNum}

FxIdle ==
    [pc |-> "idle", id |-> 0, key |-> EmptyStr, retryCount |-> 0, requests |-> 0,
     waits |-> <<>>, seen |-> <<>>, body |-> NoBody, result |-> NULL]

\* Faulty retry tests: one retry too many, and a retry on every status.
ShouldRetryOffByOne(status, retryCount) == status = 401 /\ retryCount <= maxRetries
ShouldRetryAnyStatus(status, retryCount) == retryCount < maxRetries

\* response.status === 401 && retryCount < maxRetries
ShouldRetry(status, retryCount) == status = 401 /\ retryCount < maxRetries

\* The call (the first one, or the one made after the delay) up to its
\* "await fetch": maskApiKey runs outside the try, so a throw rejects the
\* promise the caller holds.
FetchIssue(retryCount) ==
    IF MaskThrows(fx.key)
    THEN fx' = [fx EXCEPT !.pc = "rejected"]
    ELSE fx' = [fx EXCEPT !.pc = "awaitFetch", !.retryCount = retryCount,
                          !.requests = fx.requests + 1]

FetchCall ==
    /\ fx.pc = "call"
    /\ FetchIssue(0)
    /\ UNCHANGED <<mainVars, bp, ag, im>>

HttpError(status) == "HTTP " \o ToString(status)

Done(record) == [fx EXCEPT !.pc = "done", !.result = Some(record)]

\* fetch() settles: the catch on a rejection, the delay on a 401 that is
\* retried, the error record on any other status that is not ok.
FetchSettles(status) ==
    /\ fx.pc = "awaitFetch"
    /\ LET seen == Append(fx.seen, status)
       IN  IF status = 0
           THEN fx' = [Done(ErrorRecord(fx.id, fx.key, "Failed to fetch")) EXCEPT !.seen = seen]
           ELSE IF ~ResponseOk(status)
                THEN IF ShouldRetry(status, fx.retryCount)
                     THEN fx' = [fx EXCEPT !.pc = "delay", !.seen = seen,
                                    !.waits = Append(fx.waits, (fx.retryCount + 1) * 1000)]
                     ELSE fx' = [Done(ErrorRecord(fx.id, fx.key, HttpError(status)))
                                    EXCEPT !.seen = seen]
                ELSE fx' = [fx EXCEPT !.pc = "awaitJson", !.seen = seen]
    /\ UNCHANGED <<mainVars, bp, ag, im>>

\* The setTimeout of the retry fires: fetchApiKeyData(id, key, retryCount + 1).
FetchRetries ==
    /\ fx.pc = "delay"
    /\ FetchIssue(fx.retryCount + 1)
    /\ UNCHANGED <<mainVars, bp, ag, im>>

\* response.json() settles and the body is read (lines 772-788): a rejection
\* and the destructuring of null both end in the catch.
FetchReads(body) ==
    /\ fx.pc = "awaitJson"
    /\ LET record ==
               IF body.kind \in {"unparsable", "null"}
               THEN ErrorRecord(fx.id, fx.key, "Failed to fetch")
               ELSE IF body.kind \in {"noUsage", "noStandard"}
                    THEN ErrorRecord(fx.id, fx.key, "Invalid API response")
                    ELSE UsageRecord(fx.id, fx.key, OrZero(body.used), OrZero(body.allowance))
       IN  fx' = [Done(record) EXCEPT !.body = body]
    /\ UNCHANGED <<mainVars, bp, ag, im>>

\* ------------------------------------------------------------ batchProcess

\* One call batchProcess(items, processor, concurrency, delayMs). Every call
\* of processor is numbered in the order the calls are made; the value a call
\* resolves to names the item it was given and its number. chunks, delays,
\* calls and settled record what the call did: the sizes of the batches, the
\* delays slept, the calls made and the calls resolved, each in order.
ItemValues == {"a", "b"}
ItemLists == UNION {[1..n -> ItemValues] : n \in 0..MaxItems}
Concurrencies == 0..MaxConc

BpIdle ==
    [pc |-> "idle", items |-> <<>>, concurrency |-> 1, i |-> 0, batch |-> <<>>,
     order |-> <<>>, results |-> <<>>, chunks |-> <<>>, delays |-> 0, calls |-> <<>>,
     settled |-> <<>>]

\* Array.prototype.slice(from, to), indices counted from 0.
Slice(items, from, to) == SubSeq(items, from + 1, Min(to, Len(items)))

\* The value the call made for item number n resolves to.
processor(item, n) == [item |-> item, call |-> n]

\* The numbers of the n calls made for the items after index `from`.
Range(from, n) == [j \in 1..n |-> from + j]

\* A faulty Promise.all: the values in the order the calls settled.
PromiseAllByCompletion(b) ==
    [j \in 1..Len(b.batch) |-> processor(b.batch[b.order[j]], b.i + b.order[j])]

\* await Promise.all(batch.map(processor)) once every call has resolved: the
\* values in the order of the batch, whatever order they settled in.
PromiseAll(b) ==
    [j \in 1..Len(b.batch) |-> processor(b.batch[j], b.i + j)]

\* A faulty test: the delay is slept after every chunk.
MoreItemsAlways(b) == TRUE

\* i + concurrency < items.length
MoreItems(b) == b.i + b.concurrency < Len(b.items)

\* The head of the for loop at index i: leave the loop and return results, or
\* slice the next batch and call processor on each of its items.
LoopHead(b, i) ==
    IF i < Len(b.items)
    THEN LET batch == Slice(b.items, i, i + b.concurrency)
         IN  [b EXCEPT !.pc = "awaitAll", !.i = i, !.batch = batch, !.order = <<>>,
                       !.chunks = Append(b.chunks, Len(batch)),
                       !.calls = b.calls \o Range(i, Len(batch))]
    ELSE [b EXCEPT !.pc = "done", !.i = i, !.batch = <<>>, !.order = <<>>]

\* The loop of a call with concurrency 0 never ends: the model stops
\* following it after MaxItems + 1 chunks (no other call makes that many).
ChunkRoom(b) == Len(b.chunks) <= MaxItems

\* batchProcess is called: results = [], i = 0.
BatchProcessCall ==
    /\ bp.pc = "call"
    /\ bp' = LoopHead(bp, 0)
    /\ UNCHANGED <<mainVars, fx, ag, im>>

Unsettled(b) == {j \in 1..Len(b.batch) : \A k \in 1..Len(b.order) : b.order[k] # j}

\* One call of the batch in flight settles: it resolves, or it rejects and
\* Promise.all rejects with it, which ends batchProcess by a throw.
ProcessorSettles(j, ok) ==
    /\ bp.pc = "awaitAll"
    /\ j \in Unsettled(bp)
    /\ bp' = IF ok THEN [bp EXCEPT !.order = Append(bp.order, j),
                                   !.settled = Append(bp.settled, bp.i + j)]
                   ELSE [bp EXCEPT !.pc = "rejected"]
    /\ UNCHANGED <<mainVars, fx, ag, im>>

\* A faulty batchProcess: Promise.race in place of Promise.all, the loop goes
\* on as soon as one call of the chunk has resolved.
ChunkSettlesOnFirst ==
    /\ bp.pc = "awaitAll"
    /\ Len(bp.order) >= 1 \/ Len(bp.batch) = 0
    /\ LET pushed == [bp EXCEPT !.results = bp.results \o PromiseAll(bp)]
       IN  IF MoreItems(bp)
           THEN /\ ChunkRoom(bp)
                /\ bp' = [pushed EXCEPT !.pc = "sleep", !.delays = bp.delays + 1]
           ELSE bp' = LoopHead(pushed, bp.i + bp.concurrency)
    /\ UNCHANGED <<mainVars, fx, ag, im>>

\* Promise.all resolves: the values are pushed, then the delay is slept if
\* items are left, else the loop goes on at i + concurrency.
ChunkSettles ==
    /\ bp.pc = "awaitAll"
    /\ Unsettled(bp) = {}
    /\ LET pushed == [bp EXCEPT !.results = bp.results \o PromiseAll(bp)]
       IN  IF MoreItems(bp)
           THEN /\ ChunkRoom(bp)
                /\ bp' = [pushed EXCEPT !.pc = "sleep", !.delays = bp.delays + 1]
           ELSE bp' = LoopHead(pushed, bp.i + bp.concurrency)
    /\ UNCHANGED <<mainVars, fx, ag, im>>

\* A faulty loop: i is not advanced after the delay.
DelayEndsSameIndex ==
    /\ bp.pc = "sleep"
    /\ bp' = LoopHead(bp, bp.i)
    /\ UNCHANGED <<mainVars, fx, ag, im>>

\* The setTimeout of the delay fires: i += concurrency, back to the loop head.
DelayEnds ==
    /\ bp.pc = "sleep"
    /\ bp' = LoopHead(bp, bp.i + bp.concurrency)
    /\ UNCHANGED <<mainVars, fx, ag, im>>

\* ------------------------------------------------------------ snapshot of results

\* getAggregatedData from the return of batchProcess on: the snapshot built
\* from a listing of n keys and the n results of their fetches.
AgIdle == [pc |-> "idle", keyPairs |-> <<>>, results |-> <<>>, snapshot |-> emptyResponse]

\* The (used, allowance) a usage record can carry: nothing used, under, at
\* and over the allowance, and two different records over it.
AggPairs == {<<0, 3>>, <<2, 3>>, <<3, 3>>, <<5, 3>>, <<5, 0>>}

AggOutcomes(kp) ==
    {UsageRecord(kp.id, kp.key, p[1], p[2]) : p \in AggPairs}
        \cup {ErrorRecord(kp.id, kp.key, m) : m \in FetchErrors}

\* A listing of n keys, ids in kv.list order.
Listing(n) == [i \in 1..n |-> [id |-> i, key |-> KeyA]]

AggResults(keyPairs) ==
    {rs \in [1..Len(keyPairs) -> UNION {AggOutcomes(keyPairs[i]) : i \in 1..Len(keyPairs)}] :
        \A i \in 1..Len(keyPairs) : rs[i] \in AggOutcomes(keyPairs[i])}

\* What getAggregatedData returns (lines 814 and 823-842).
Snapshot(keyPairs, results) ==
    IF Len(keyPairs) = 0 THEN emptyResponse ELSE Aggregate(keyPairs, results)

AggregateResults ==
    /\ ag.pc = "call"
    /\ ag' = [ag EXCEPT !.pc = "done", !.snapshot = Snapshot(ag.keyPairs, ag.results)]
    /\ UNCHANGED <<mainVars, fx, bp, im>>


\* ------------------------------------------------------------ specification

Init ==
    /\ store \in [Ids -> StoredKeys] \cup {[i \in {} |-> KeyA]}
    /\ cachedData = NULL
    /\ lastError = NULL
    /\ isUpdating = FALSE
    /\ phase = "boot"
    /\ passes = <<>>
    /\ reqs = EmptyBag
    /\ resp = NoResp
    /\ trig = "none"
    /\ fx = FxIdle
    /\ bp = BpIdle
    /\ ag = AgIdle
    /\ im = ImIdle

Next ==
    \/ StartServer
    \/ TimerTick
    \/ \E i \in 1..Len(passes) : ListThrows(i)
    \/ \E i \in 1..Len(passes) : ListReturns(i)
    \/ \E i \in 1..Len(passes) : BatchReturns(i)
    \/ GetData
    \/ (\E body \in Bodies : SingleKeyAddBegin(body)) /\ Fits(Ids, MaxReqs)'
    \/ \E r \in BagToSet(reqs), id \in Ids : SingleKeyAddEnd(r, id)
    \/ \E id \in {0} \cup Ids : handleDeleteKey(id)
    \/ \E ids \in SUBSET Ids : handleBatchDeleteKeys(ids)
    \/ (\E items \in BatchBodies : BatchImportBegin(items)) /\ Fits(Ids, MaxReqs)'
    \/ \E r \in BagToSet(reqs), id \in Ids : BatchImportStep(r, id)

Spec == Init /\ [][Next]_vars

\* One call of fetchApiKeyData, for every key and every run of responses.
InitFetch ==
    /\ store = [i \in {} |-> KeyA]
    /\ cachedData = NULL
    /\ lastError = NULL
    /\ isUpdating = FALSE
    /\ phase = "boot"
    /\ passes = <<>>
    /\ reqs = EmptyBag
    /\ resp = NoResp
    /\ trig = "none"
    /\ \E id \in Ids, key \in FetchKeys : fx = [FxIdle EXCEPT !.pc = "call", !.id = id, !.key = key]
    /\ bp = BpIdle
    /\ ag = AgIdle
    /\ im = ImIdle

NextFetch ==
    \/ FetchCall
    \/ \E status \in Statuses : FetchSettles(status)
    \/ FetchRetries
    \/ \E body \in BodiesOf200 : FetchReads(body)

SpecFetch == InitFetch /\ [][NextFetch]_vars

\* The other parts of the program at rest.
MainIdle ==
    /\ store = [i \in {} |-> KeyA]
    /\ cachedData = NULL
    /\ lastError = NULL
    /\ isUpdating = FALSE
    /\ phase = "boot"
    /\ passes = <<>>
    /\ reqs = EmptyBag
    /\ resp = NoResp
    /\ trig = "none"

\* One call of batchProcess, for every item list and every concurrency.
InitBatch ==
    /\ MainIdle
    /\ fx = FxIdle
    /\ ag = AgIdle
    /\ im = ImIdle
    /\ \E items \in ItemLists, c \in Concurrencies :
          bp = [BpIdle EXCEPT !.pc = "call", !.items = items, !.concurrency = c]

NextBatch ==
    \/ BatchProcessCall
    \/ \E j \in 1..MaxItems, ok \in BOOLEAN : ProcessorSettles(j, ok)
    \/ ChunkSettles
    \/ DelayEnds

SpecBatch == InitBatch /\ [][NextBatch]_vars

\* The scheduling a claim about the end of batchProcess assumes: the event
\* loop runs what is ready, every call of processor settles and the timer of
\* the delay fires.
FairBatch ==
    /\ SpecBatch
    /\ WF_vars(BatchProcessCall)
    /\ WF_vars(\E j \in 1..MaxItems, ok \in BOOLEAN : ProcessorSettles(j, ok))
    /\ WF_vars(ChunkSettles)
    /\ WF_vars(DelayEnds)

\* The server and requests that add keys, several at a time: the secrets
\* they carry are strings, and every store call and fetch returns.
KeyIds == 1..MaxKeyIds
KeySecrets == {KeyA, KeyB}

InitKeys ==
    /\ store \in {[i \in {} |-> KeyA], [i \in {1} |-> KeyA]}
    /\ cachedData = NULL
    /\ lastError = NULL
    /\ isUpdating = FALSE
    /\ phase = "boot"
    /\ passes = <<>>
    /\ reqs = EmptyBag
    /\ resp = NoResp
    /\ trig = "none"
    /\ fx = FxIdle
    /\ bp = BpIdle
    /\ ag = AgIdle
    /\ im = ImIdle

\* Single adds only.
NextAdds ==
    \/ StartServer
    \/ \E i \in 1..Len(passes) : ListReturns(i)
    \/ \E i \in 1..Len(passes) : BatchReturns(i)
    \/ (\E k \in KeySecrets : SingleKeyAddBegin(KeyBody(k))) /\ Fits(KeyIds, MaxKeyReqs)'
    \/ \E r \in BagToSet(reqs), id \in KeyIds : SingleKeyAddEnd(r, id)

SpecAdds == InitKeys /\ [][NextAdds]_vars

\* The server, reads, deletes and refreshes of single keys.
NextRefresh ==
    \/ StartServer
    \/ TimerTick
    \/ \E i \in 1..Len(passes) : ListThrows(i)
    \/ \E i \in 1..Len(passes) : ListReturns(i)
    \/ \E i \in 1..Len(passes) : BatchReturns(i)
    \/ GetData
    \/ \E id \in Ids : handleDeleteKey(id)
    \/ (\E id \in Ids : RefreshKeyBegin(id)) /\ Fits(Ids, MaxReqs)'
    \/ \E r \in BagToSet(reqs) : RefreshKeyEnd(r)

SpecRefresh == Init /\ [][NextRefresh]_vars

\* One batch import, for every array of items and every set of stored secrets.
ImportItems == {NoKeyBody, KeyBody(EmptyStr), KeyBody(KeyA), KeyBody(KeyB)}
ImportBodies == UNION {[1..n -> ImportItems] : n \in 0..MaxImport}

InitImport ==
    /\ MainIdle
    /\ fx = FxIdle
    /\ bp = BpIdle
    /\ ag = AgIdle
    /\ \E items \in ImportBodies, startKeys \in SUBSET KeySecrets :
          im = [ImIdle EXCEPT !.pc = "call", !.items = items, !.startKeys = startKeys]

NextImport ==
    \/ ImportCall
    \/ ImportAdds

SpecImport == InitImport /\ [][NextImport]_vars

\* One snapshot, for every number of keys and every mix of results.
InitAgg ==
    /\ MainIdle
    /\ fx = FxIdle
    /\ bp = BpIdle
    /\ im = ImIdle
    /\ \E n \in 0..MaxResults : \E rs \in AggResults(Listing(n)) :
          ag = [AgIdle EXCEPT !.pc = "call", !.keyPairs = Listing(n), !.results = rs]

NextAgg == AggregateResults

SpecAgg == InitAgg /\ [][NextAgg]_vars


\* The scheduling the claims about progress assume: startServer runs, the
\* timer keeps firing, every store call and every fetch settles, and a
\* listing that is asked for again and again does not fail every time.
FairSpec ==
    /\ Spec
    /\ WF_vars(StartServer)
    /\ WF_vars(TimerTick)
    /\ WF_vars(\E i \in 1..Len(passes) : ListThrows(i) \/ ListReturns(i) \/ BatchReturns(i))
    /\ SF_vars(\E i \in 1..Len(passes) : ListReturns(i))
    /\ WF_vars(\E r \in BagToSet(reqs), id \in Ids :
                    SingleKeyAddEnd(r, id) \/ BatchImportStep(r, id))

\* ------------------------------------------------------------ claims

\* The states of the cache the specification names.
Updating == isUpdating
Failed == ~isUpdating /\ lastError # NULL
Empty == ~isUpdating /\ lastError = NULL /\ cachedData = NULL

\* C1: at most one refresh pass is in flight at any time, and a call of
\* autoRefreshData made while a refresh is in progress changes neither the
\* pass in flight (it is not restarted, not cancelled, no second pass is
\* added) nor the cache.
C1_SingleFlight ==
    [][/\ Len(passes') <= 1
       /\ (isUpdating /\ trig' # "none") =>
             /\ passes' = passes
             /\ isUpdating'
             /\ UNCHANGED <<cachedData, lastError>>]_vars

\* A request called autoRefreshData while the one pass in flight was already
\* fetching.
C1_Witness ==
    /\ trig = "request"
    /\ isUpdating
    /\ Len(passes) = 1
    /\ passes[1].pc = "fetching"

\* C2: a GET /api/data handled while a refresh is in progress and a snapshot
\* is stored answers 200 with that snapshot; a step that starts or continues
\* a refresh leaves the stored snapshot as it was; and a read changes neither
\* the cache nor the passes and calls no refresh.
C2_StaleReadDuringRefresh ==
    [][/\ (isUpdating' => cachedData' = cachedData)
       /\ (resp'.op = "getData") =>
             /\ trig' = "none"
             /\ UNCHANGED <<store, cachedData, lastError, isUpdating, passes>>
             /\ (isUpdating /\ cachedData # NULL) =>
                   (resp'.status = 200 /\ resp'.data = cachedData)]_vars

C2_Witness ==
    /\ resp.op = "getData"
    /\ resp.status = 200
    /\ resp.data = cachedData
    /\ isUpdating
    /\ Len(passes) = 1

\* C3 as stated: whenever the last refresh failed (the error it stored has not
\* been cleared by a successful one), a GET /api/data answers 500 with that
\* error message.
C3_Claim ==
    (resp.op = "getData" /\ lastError # NULL) =>
        (resp.status = 500 /\ resp.error = lastError[1])

\* C3 amended: after a failed refresh a GET /api/data answers 500 with the
\* error message if no snapshot was ever stored, and 200 with the snapshot of
\* the last successful refresh if one was.
C3_Amended ==
    (resp.op = "getData" /\ lastError # NULL) =>
        IF cachedData = NULL
        THEN resp.status = 500 /\ resp.error = lastError[1] /\ resp.data = NULL
        ELSE resp.status = 200 /\ resp.data = cachedData

\* A read after a refresh failed over a stored snapshot.
C3_Witness ==
    /\ resp.op = "getData"
    /\ Failed
    /\ cachedData # NULL
    /\ resp.status = 200

\* C4 as stated: with no snapshot stored, a GET /api/data answers 503 when the
\* cache is Empty or Updating (whatever the state the refresh started from),
\* and a 500 is only answered in the state Failed.
C4_Claim ==
    (resp.op = "getData") =>
        /\ (cachedData = NULL /\ (Empty \/ Updating)) => resp.status = 503
        /\ resp.status = 500 => Failed

\* C4 amended: a GET /api/data answers 503 exactly when neither a snapshot
\* nor an error message is stored, and 500 exactly when no snapshot and an
\* error message are stored; starting a refresh keeps the stored error
\* message, so a read during a refresh started from Failed with no snapshot
\* answers 500 with the message of the failure.
C4_Amended ==
    [][/\ (~isUpdating /\ isUpdating') => UNCHANGED <<cachedData, lastError>>
       /\ (resp'.op = "getData") =>
             /\ resp'.status = 503 <=> (cachedData' = NULL /\ lastError' = NULL)
             /\ resp'.status = 500 <=> (cachedData' = NULL /\ lastError' # NULL)
             /\ resp'.status = 500 => resp'.error = lastError'[1]]_vars

\* A read answered 500 during a refresh started from Failed.
C4_Witness ==
    /\ resp.op = "getData"
    /\ resp.status = 500
    /\ Updating
    /\ cachedData = NULL

\* C5: a request is handled, and the timer is set, only once the call of
\* autoRefreshData that startServer awaits has ended, having stored a
\* snapshot or an error: never in the Empty state, never during the first
\* refresh.
C5_StartupSynchronous ==
    /\ (resp.op # "none" \/ reqs # EmptyBag \/ trig \in {"timer", "request"})
          => phase = "serving"
    /\ phase = "serving" =>
          /\ cachedData # NULL \/ lastError # NULL
          /\ \A i \in 1..Len(passes) : ~passes[i].awaited
    /\ phase = "awaitInitial" =>
          (Len(passes) = 1 /\ passes[1].awaited /\ isUpdating)

\* The first request answered after a startup refresh that failed.
C5_Witness ==
    /\ phase = "serving"
    /\ resp.op = "getData"
    /\ resp.status = 500
    /\ ~isUpdating

Ready == ~isUpdating /\ lastError = NULL /\ cachedData # NULL

\* A refresh of the stored keys can succeed: no stored key makes
\* fetchApiKeyData throw.
CanSucceed == \A id \in DOMAIN store : ~MaskThrows(store[id])

\* C6: from Failed a call of autoRefreshData by the timer or by a request
\* starts a new pass; a pass that ends, by a failure too, leaves the updating
\* flag clear; and when the timer keeps firing and the calls settle, a failure
\* is followed by a successful refresh (Ready), unless a stored key makes every
\* refresh fail.
C6_FailedRetries ==
    /\ [][(Failed /\ trig' # "none") =>
             (isUpdating' /\ Len(passes') = 1 /\ passes'[1].pc = "listing")]_vars
    /\ [][Len(passes') < Len(passes) => ~isUpdating']_vars
    /\ (lastError # NULL) ~> (Ready \/ ~CanSucceed)

\* The timer started a pass from Failed.
C6_Witness ==
    /\ trig = "timer"
    /\ isUpdating
    /\ lastError # NULL
    /\ Len(passes) = 1
    /\ passes[1].pc = "listing"

Stores == UNION {[S -> StoredKeys] : S \in SUBSET Ids}

\* The stored snapshot lists exactly the credentials of key set s.
Reflects(s) ==
    /\ cachedData # NULL
    /\ cachedData[1].total_count = Cardinality(DOMAIN s)
    /\ {cachedData[1].data[i].id : i \in 1..Len(cachedData[1].data)} = DOMAIN s

MutationSucceeded == resp.op \in {"add", "delete"} /\ resp.status = 200

\* C7 as stated: after an add or a delete answered 200, a snapshot of the key
\* set the mutation left is eventually stored, unless the key set is changed
\* again before.
C7_Claim ==
    \A s \in Stores :
        (store = s /\ MutationSucceeded) ~> (store # s \/ Reflects(s))

\* C8: an add, a delete or a batch delete answered 200 called autoRefreshData,
\* a batch import called it exactly when it added a key, a request answered
\* 400 or 409 did not call it; and the response of a request that called it
\* is sent while the refresh is in flight (the call is not awaited). Each
\* handler calls it at most once on a path.
C8_MutationsTrigger ==
    /\ (resp.op \in {"add", "delete", "batchDelete"} /\ resp.status = 200)
          => trig = "request"
    /\ resp.op = "import" => (trig = "request" <=> resp.added > 0)
    /\ resp.status \in {400, 409} => trig = "none"
    /\ trig = "request" =>
          /\ resp.op \in {"add", "delete", "batchDelete", "import"}
          /\ resp.status = 200
          /\ isUpdating
          /\ Len(passes) = 1

\* A batch import that added a key and started the refresh.
C8_Witness ==
    /\ resp.op = "import"
    /\ resp.added > 0
    /\ trig = "request"
    /\ passes[1].pc = "listing"

\* C9: a 401 at attempt n < 2 is followed by a delay of (n + 1) * 1000 ms and
\* another request; three 401 in a row end the call after 3 requests and the
\* delays 1000 and 2000 with the error record 'HTTP 401'; no call makes more
\* than 3 requests.
C9_RetryBound ==
    /\ fx.requests <= 3
    /\ Len(fx.waits) <= 2
    /\ \A n \in 1..Len(fx.seen) :
          (fx.seen[n] = 401 /\ n <= 2) =>
              /\ Len(fx.waits) >= n
              /\ fx.waits[n] = n * 1000
              /\ (fx.pc = "delay" /\ fx.requests = n) \/ fx.requests > n
    /\ (fx.pc = "done" /\ fx.seen = <<401, 401, 401>>) =>
          /\ fx.result = Some([id |-> fx.id, key |-> maskApiKey(fx.key), error |-> "HTTP 401"])
          /\ fx.requests = 3
          /\ fx.waits = <<1000, 2000>>

C9_Witness == fx.pc = "done" /\ fx.seen = <<401, 401, 401>>

ExpectedHttpError(status) ==
    CASE status = 401 -> "HTTP 401"
      [] status = 403 -> "HTTP 403"
      [] status = 500 -> "HTTP 500"
      [] OTHER -> "?"

FxError(msg) == Some([id |-> fx.id, key |-> maskApiKey(fx.key), error |-> msg])

\* C10: every response that was followed by another request was a 401; a
\* rejected fetch, a 2xx whose body is no JSON or is null, any status that is
\* neither 2xx nor a retried 401, and a 2xx body without usage.standard each
\* end the call at once, with 'Failed to fetch', 'Failed to fetch',
\* 'HTTP <status>' and 'Invalid API response'.
C10_OnlyUnauthorizedRetried ==
    /\ \A n \in 1..(Len(fx.seen) - 1) : fx.seen[n] = 401
    /\ fx.pc \in {"done", "awaitJson", "delay"} => fx.requests = Len(fx.seen)
    /\ Len(fx.seen) > 0 =>
          LET last == fx.seen[Len(fx.seen)]
          IN  /\ last = 0 => (fx.pc = "done" /\ fx.result = FxError("Failed to fetch"))
              /\ (~ResponseOk(last) /\ last # 0 /\ (last # 401 \/ Len(fx.seen) = 3)) =>
                    (fx.pc = "done" /\ fx.result = FxError(ExpectedHttpError(last)))
              /\ (fx.pc = "done" /\ fx.body.kind \in {"unparsable", "null"}) =>
                    fx.result = FxError("Failed to fetch")
              /\ (fx.pc = "done" /\ fx.body.kind \in {"noUsage", "noStandard"}) =>
                    fx.result = FxError("Invalid API response")

\* The second attempt got a 2xx without usage.standard.
C10_Witness ==
    /\ fx.pc = "done"
    /\ fx.seen = <<401, 200>>
    /\ fx.body.kind = "noStandard"
    /\ fx.requests = 2

CeilDiv(n, c) == (n + c - 1) \div c

\* C12: a call of batchProcess with concurrency c >= 1 on n items that returns
\* has made ceil(n/c) chunks, each of c items but the last, which has the
\* items left (1..c), the chunks taking the items in order; it has slept one
\* delay before each chunk but the first and none after the last:
\* ceil(n/c) - 1 delays for n > 0 and none for n = 0.
C12_ChunksAndDelays ==
    LET n == Len(bp.items)
        c == bp.concurrency
        k == Len(bp.chunks)
    IN  (bp.pc # "idle" /\ c >= 1) =>
            /\ bp.pc = "awaitAll" => bp.delays = k - 1
            /\ bp.pc = "sleep" => (bp.delays = k /\ k * c < n)
            /\ \A m \in 1..(k - 1) : bp.chunks[m] = c
            /\ bp.calls = [m \in 1..Len(bp.calls) |-> m]
            /\ bp.pc = "done" =>
                  /\ k = CeilDiv(n, c)
                  /\ n > 0 => (bp.chunks[k] = n - (k - 1) * c /\ bp.chunks[k] \in 1..c)
                  /\ bp.delays = (IF n = 0 THEN 0 ELSE CeilDiv(n, c) - 1)

\* Concurrency 2 and 5 items: chunks [2,2,1] and 2 delays.
C12_Witness ==
    /\ bp.pc = "done"
    /\ bp.concurrency = 2
    /\ Len(bp.items) = 5
    /\ bp.chunks = <<2, 2, 1>>
    /\ bp.delays = 2

\* C13: a call of batchProcess that returns gives one result per item, and
\* result i is the value of the call made for item i, in whatever order the
\* calls of a chunk resolved.
C13_ResultsInInputOrder ==
    (bp.pc = "done") =>
        /\ Len(bp.results) = Len(bp.items)
        /\ \A m \in 1..Len(bp.items) : bp.results[m] = processor(bp.items[m], m)

\* Three items in chunks of two, the second call resolving before the first.
C13_Witness ==
    /\ bp.pc = "done"
    /\ bp.items = <<"a", "b", "a">>
    /\ bp.concurrency = 2
    /\ bp.settled = <<2, 1, 3>>
    /\ Len(bp.results) = 3

IsUsageRecord(r) == DOMAIN r = {"id", "key", "orgTotalTokensUsed", "totalAllowance"}
IsErrorRecord(r) == DOMAIN r = {"id", "key", "error"}

\* C11 as stated: a call of fetchApiKeyData never rejects, and what it
\* resolves to is a usage record (no error field) or an error record (an
\* error field and no usage field), one of the two and not both.
C11_Claim ==
    /\ fx.pc # "rejected"
    /\ fx.pc = "done" =>
          /\ fx.result # NULL
          /\ IsUsageRecord(fx.result[1]) # IsErrorRecord(fx.result[1])

\* max(0, allowance - used), written out.
Clamped(r) ==
    IF r.totalAllowance > r.orgTotalTokensUsed
    THEN r.totalAllowance - r.orgTotalTokensUsed
    ELSE 0

RECURSIVE SeqSum(_)
SeqSum(ns) == IF ns = <<>> THEN 0 ELSE Head(ns) + SeqSum(Tail(ns))

\* The usage records a snapshot lists.
UsageOf(snapshot) == SelectSeq(snapshot.data, IsUsageRecord)

\* C14: the snapshot built from n keys has total_count n and n entries in
\* data, and every result, of a failed fetch too, is listed exactly once.
C14_CountsEveryKey ==
    (ag.pc = "done") =>
        LET n == Len(ag.keyPairs)
            data == ag.snapshot.data
        IN  /\ ag.snapshot.total_count = n
            /\ Len(data) = n
            /\ \A i \in 1..n :
                  Cardinality({j \in 1..Len(data) : data[j] = ag.results[i]}) = 1

\* Three keys, the first fetch failed, the two others succeeded.
C14_Witness ==
    /\ ag.pc = "done"
    /\ Len(ag.keyPairs) = 3
    /\ IsErrorRecord(ag.results[1])
    /\ IsUsageRecord(ag.results[2])
    /\ IsUsageRecord(ag.results[3])
    /\ ag.snapshot.total_count = 3

\* C15: in a snapshot no usage record is listed after an error record, and of
\* two usage records the one listed first has at least the remaining of the
\* other, with remaining = max(0, allowance - used).
C15_SortedByRemaining ==
    (ag.pc = "done") =>
        LET data == ag.snapshot.data
        IN  \A i, j \in 1..Len(data) :
                i < j =>
                    /\ IsErrorRecord(data[i]) => IsErrorRecord(data[j])
                    /\ (IsUsageRecord(data[i]) /\ IsUsageRecord(data[j])) =>
                          Clamped(data[i]) >= Clamped(data[j])

\* The results came as an error, a usage and a usage with more remaining: the
\* snapshot lists them in the opposite order.
C15_Witness ==
    /\ ag.pc = "done"
    /\ Len(ag.results) = 3
    /\ IsErrorRecord(ag.results[1])
    /\ IsUsageRecord(ag.results[2])
    /\ IsUsageRecord(ag.results[3])
    /\ Clamped(ag.results[2]) < Clamped(ag.results[3])
    /\ ag.snapshot.data = <<ag.results[3], ag.results[2], ag.results[1]>>

\* C16: the three totals of a snapshot are the sums, over the usage records
\* it lists, of used, of allowance and of max(0, allowance - used); they are
\* the totals of the snapshot built from the usage records alone, so error
\* records in the results change no total.
C16_TotalsOverUsageOnly ==
    (ag.pc = "done") =>
        LET us == UsageOf(ag.snapshot)
            valid == SelectSeq(ag.results, IsUsageRecord)
            totals == ag.snapshot.totals
        IN  /\ totals.total_orgTotalTokensUsed =
                  SeqSum([i \in 1..Len(us) |-> us[i].orgTotalTokensUsed])
            /\ totals.total_totalAllowance =
                  SeqSum([i \in 1..Len(us) |-> us[i].totalAllowance])
            /\ totals.totalRemaining = SeqSum([i \in 1..Len(us) |-> Clamped(us[i])])
            /\ totals = Snapshot(Listing(Len(valid)), valid).totals

\* Two usage records and an error record between them.
C16_Witness ==
    /\ ag.pc = "done"
    /\ Len(ag.results) = 3
    /\ IsUsageRecord(ag.results[1])
    /\ IsErrorRecord(ag.results[2])
    /\ IsUsageRecord(ag.results[3])
    /\ ag.snapshot.totals.total_orgTotalTokensUsed = 7
    /\ ag.snapshot.totals.total_totalAllowance = 6

\* C17: totalRemaining is the sum of max(0, allowance - used) and is never
\* negative, also when a key has used more than its allowance; the sort uses
\* the same clamped value: the keys with nothing remaining are listed after
\* the others and keep among themselves the order of the results.
C17_RemainingClamped ==
    (ag.pc = "done") =>
        LET us == UsageOf(ag.snapshot)
        IN  /\ ag.snapshot.totals.totalRemaining >= 0
            /\ ag.snapshot.totals.totalRemaining =
                  SeqSum([i \in 1..Len(us) |-> Clamped(us[i])])
            /\ \A i, j \in 1..Len(us) :
                  (i < j /\ us[i].orgTotalTokensUsed >= us[i].totalAllowance) =>
                      /\ us[j].orgTotalTokensUsed >= us[j].totalAllowance
                      /\ us[i].id < us[j].id

\* Two keys over their allowance by different amounts and one under it.
C17_Witness ==
    /\ ag.pc = "done"
    /\ Len(ag.results) = 3
    /\ \A i \in 1..3 : IsUsageRecord(ag.results[i])
    /\ ag.results[1].orgTotalTokensUsed = 5 /\ ag.results[1].totalAllowance = 0
    /\ ag.results[2].orgTotalTokensUsed = 0 /\ ag.results[2].totalAllowance = 3
    /\ ag.results[3].orgTotalTokensUsed = 5 /\ ag.results[3].totalAllowance = 3
    /\ ag.snapshot.data = <<ag.results[2], ag.results[1], ag.results[3]>>
    /\ ag.snapshot.totals.totalRemaining = 3

\* The masked form of a secret: its first 4 characters (all of them if it has
\* fewer), three dots, and its last 4 characters if it has more than 8.
MaskedForm(cs) ==
    LET first == [i \in 1..(IF Len(cs) < 4 THEN Len(cs) ELSE 4) |-> cs[i]]
        last == [i \in 1..4 |-> cs[Len(cs) - 4 + i]]
    IN  IF Len(cs) > 8 THEN first \o <<".", ".", ".">> \o last
                       ELSE first \o <<".", ".", ".">>

\* The field starts with the whole secret, character for character.
ReadableFrom(field, cs) == Len(field) >= Len(cs) /\ SubSeq(field, 1, Len(cs)) = cs

\* C18 as stated: the key field of every result of fetchApiKeyData is the
\* masked form of the secret, and the whole secret cannot be read from it;
\* 'abcdefghijkl' gives 'abcd...ijkl' and 'abcde' gives 'abcd...'.
C18_Claim ==
    (fx.pc = "done") =>
        /\ fx.result[1].key = MaskedForm(fx.key.chars)
        /\ ~ReadableFrom(fx.result[1].key, fx.key.chars)
        /\ fx.key = KeyA =>
              fx.result[1].key = <<"a", "b", "c", "d", ".", ".", ".", "i", "j", "k", "l">>
        /\ fx.key = KeyB => fx.result[1].key = <<"a", "b", "c", "d", ".", ".", ".">>

\* No two stored credentials have the same secret.
NoDuplicates(kv) == \A i, j \in DOMAIN kv : i # j => kv[i] # kv[j]

\* C19 as stated: a single add answered 409 leaves the store as it was, and
\* whatever single adds are made, one after the other or at the same time, no
\* two stored credentials have the same secret.
C19_Claim ==
    [][/\ (resp'.op = "add" /\ resp'.status = 409) => store' = store
       /\ NoDuplicates(store')]_vars

\* An item that carries a secret (a "key" that is not empty).
Keyed(item) == item.hasKey /\ Truthy(item.key)

\* Item j carries a secret that an earlier item of the batch carries too.
CarriedBefore(items, j) == \E k \in 1..(j - 1) : Keyed(items[k]) /\ items[k].key = items[j].key

\* C20 as stated: the items skipped are exactly those whose secret was stored
\* when the batch started, and every other item that carries a secret is
\* added, the second of two items with the same new secret too.
C20_Claim ==
    (im.pc = "done") =>
        LET new == {j \in 1..Len(im.items) : Keyed(im.items[j]) /\ im.items[j].key \notin im.startKeys}
            old == {j \in 1..Len(im.items) : Keyed(im.items[j]) /\ im.items[j].key \in im.startKeys}
        IN  /\ im.r.skipped = Cardinality(old)
            /\ im.r.added = Cardinality(new)

\* C20 amended: an item is skipped, and counted as skipped, exactly when its
\* secret was stored when the batch started or is carried by an earlier item
\* of the same batch; the other items that carry a secret are added, each new
\* secret once, in the order of the items.
C20_Amended ==
    (im.pc = "done") =>
        LET dup == {j \in 1..Len(im.items) :
                       /\ Keyed(im.items[j])
                       /\ im.items[j].key \in im.startKeys \/ CarriedBefore(im.items, j)}
            new == {j \in 1..Len(im.items) :
                       /\ Keyed(im.items[j])
                       /\ im.items[j].key \notin im.startKeys
                       /\ ~CarriedBefore(im.items, j)}
        IN  /\ im.r.skipped = Cardinality(dup)
            /\ im.r.added = Cardinality(new)
            /\ Len(im.stored) = Cardinality(new)
            /\ \A j \in new : \E m \in 1..Len(im.stored) : im.stored[m] = im.items[j].key
            /\ \A m, n \in 1..Len(im.stored) : m # n => im.stored[m] # im.stored[n]

\* Two items with the same new secret: the first added, the second skipped.
C20_Witness ==
    /\ im.pc = "done"
    /\ im.items = <<KeyBody(KeyA), KeyBody(KeyA)>>
    /\ im.startKeys = {}
    /\ im.r.added = 1
    /\ im.r.skipped = 1
    /\ im.stored = <<KeyA>>

\* The snapshot of no credentials.
NoCredentials(snapshot) ==
    /\ snapshot.total_count = 0
    /\ snapshot.totals.total_orgTotalTokensUsed = 0
    /\ snapshot.totals.total_totalAllowance = 0
    /\ snapshot.totals.totalRemaining = 0
    /\ snapshot.data = <<>>

ListingFailed(error) == \E m \in StoreErrors : error = Some(m)

\* C21: with no credential stored, the pass startServer awaits never gets to
\* fetching; when its listing of the store returns, the pass ends in that
\* step, with the snapshot of no credentials stored, no error and the flag
\* clear; and a GET /api/data handled while that snapshot is stored answers
\* 200 with total_count 0, the three totals 0 and no data.
C21_EmptyKeySet ==
    [][/\ (phase' = "awaitInitial" /\ DOMAIN store' = {}) =>
             (Len(passes') = 1 /\ passes'[1].pc = "listing")
       /\ (phase = "awaitInitial" /\ DOMAIN store = {} /\ passes' # passes
              /\ ~ListingFailed(lastError')) =>
             /\ phase' = "serving"
             /\ passes' = <<>>
             /\ cachedData' # NULL
             /\ NoCredentials(cachedData'[1])
             /\ lastError' = NULL
             /\ ~isUpdating'
       /\ (resp'.op = "getData" /\ cachedData # NULL /\ NoCredentials(cachedData[1])) =>
             /\ resp'.status = 200
             /\ resp'.data # NULL
             /\ NoCredentials(resp'.data[1])]_vars

\* The first read after a startup with no credential stored.
C21_Witness ==
    /\ resp.op = "getData"
    /\ resp.status = 200
    /\ NoCredentials(resp.data[1])
    /\ DOMAIN store = {}
    /\ trig = "none"
    /\ ~isUpdating
    /\ lastError = NULL

\* A pass ended in this step.
PassEnded == Len(passes') < Len(passes)

\* C22: the step in which a pass ends with success (it stores a snapshot or
\* leaves no error message) stores the snapshot of the keys the pass listed,
\* clears the error message and clears the flag, all three at once; and while
\* a snapshot and no error message are stored, a GET /api/data answers 200
\* with that snapshot and no error.
C22_SuccessStoresAndClears ==
    [][/\ (PassEnded /\ (cachedData' # cachedData \/ lastError' = NULL)) =>
             /\ cachedData' # NULL
             /\ cachedData'[1].total_count = Len(passes[1].keyPairs)
             /\ Len(cachedData'[1].data) = Len(passes[1].keyPairs)
             /\ lastError' = NULL
             /\ ~isUpdating'
       /\ (resp'.op = "getData" /\ cachedData # NULL /\ lastError = NULL) =>
             /\ resp'.status = 200
             /\ resp'.data = cachedData
             /\ resp'.error = ""]_vars

\* A read of the snapshot of one key, stored by a refresh that succeeded.
C22_Witness ==
    /\ resp.op = "getData"
    /\ resp.status = 200
    /\ resp.data[1].total_count = 1
    /\ lastError = NULL
    /\ ~isUpdating
    /\ passes = <<>>

\* The calls of processor made and not yet settled.
InFlight(b) ==
    {b.calls[k] : k \in 1..Len(b.calls)} \ {b.settled[k] : k \in 1..Len(b.settled)}

\* C23: batchProcess calls processor for a chunk only when every call it made
\* before has settled, so the calls in flight are calls of the chunk being
\* awaited and there are never more of them than `concurrency`.
C23_ChunkBarrier ==
    [][/\ Len(bp'.calls) > Len(bp.calls) => InFlight(bp) = {}
       /\ Cardinality(InFlight(bp')) <= bp'.concurrency
       /\ InFlight(bp') \subseteq {bp'.i + j : j \in 1..Len(bp'.batch)}]_vars

\* The second chunk of two calls is in flight, the first chunk has settled.
C23_Witness ==
    /\ bp.pc = "awaitAll"
    /\ bp.concurrency = 2
    /\ bp.chunks = <<2, 2>>
    /\ bp.settled = <<2, 1>>
    /\ InFlight(bp) = {3, 4}

\* C24: the step in which a pass ends with a failure changes the error
\* message and the flag and leaves the stored snapshot as it was; no step
\* takes a stored snapshot away; and a GET /api/data handled while a snapshot
\* is stored answers 200 with it.
C24_SnapshotSurvivesFailure ==
    [][/\ (PassEnded /\ lastError' # NULL) =>
             /\ cachedData' = cachedData
             /\ ~isUpdating'
             /\ store' = store
       /\ cachedData # NULL => cachedData' # NULL
       /\ (resp'.op = "getData" /\ cachedData # NULL) =>
             /\ resp'.status = 200
             /\ resp'.data = cachedData
             /\ cachedData' = cachedData]_vars

\* A refresh has just failed over a stored snapshot.
C24_Witness ==
    /\ Failed
    /\ cachedData # NULL
    /\ passes = <<>>
    /\ resp = NoResp
    /\ trig = "none"
    /\ reqs = EmptyBag

\* C25: in every state the number of refresh passes in flight is 1 if the
\* updating flag is set and 0 if it is not; the step that starts a pass sets
\* the flag, and the step in which a pass ends, with a snapshot or with an
\* error, clears it.
C25_FlagCountsPasses ==
    [][/\ Len(passes') = (IF isUpdating' THEN 1 ELSE 0)
       /\ Len(passes') > Len(passes) => (~isUpdating /\ isUpdating')
       /\ PassEnded => (isUpdating /\ ~isUpdating')
       /\ (isUpdating # isUpdating') => Len(passes') # Len(passes)]_vars

\* A pass started after startup is waiting for its fetches.
C25_Witness ==
    /\ isUpdating
    /\ phase = "serving"
    /\ Len(passes) = 1
    /\ passes[1].pc = "fetching"
    /\ ~passes[1].awaited
    /\ trig = "none"

\* The calls of processor still in flight; when batchProcess has ended by a
\* rejection, the call that rejected is not one of them.
Pending(b) ==
    IF b.pc = "rejected" THEN Cardinality(InFlight(b)) - 1 ELSE Cardinality(InFlight(b))

\* C26 as stated: the batchProcess call of a refresh pass ends, by a return or
\* by a throw, and with it the pass, only when every fetchApiKeyData call it
\* made has settled, so a fetch that never returns keeps the pass from ending
\* and the updating flag set.
C26_Claim == bp.pc \in {"done", "rejected"} => Pending(bp) = 0

\* The ids a listing of the store, or the data of a snapshot, names.
IdsOf(seq) == {seq[k].id : k \in 1..Len(seq)}

\* C27: a call of autoRefreshData by a request made while a pass is in flight
\* starts no pass and leaves the pass in flight as it is; a pass that had
\* listed the keys before publishes the snapshot of the keys it listed,
\* whatever the store holds by then; and a pass is only ever started in a step
\* that calls autoRefreshData (startup, a timer tick, a mutation): the end of
\* a pass starts none.
C27_TriggerDroppedDuringPass ==
    [][/\ (isUpdating /\ trig' = "request") =>
             (passes' = passes /\ isUpdating' /\ UNCHANGED <<cachedData, lastError>>)
       /\ (PassEnded /\ passes[1].pc = "fetching" /\ lastError' = NULL) =>
             /\ cachedData' # NULL
             /\ IdsOf(cachedData'[1].data) = IdsOf(passes[1].keyPairs)
             /\ cachedData'[1].total_count = Len(passes[1].keyPairs)
       /\ Len(passes') > Len(passes) => trig' \in {"startup", "timer", "request"}
       /\ PassEnded => (passes' = <<>> /\ trig' = "none")]_vars

\* A delete has just been answered while a pass is fetching the key it
\* deleted: its call of autoRefreshData started nothing.
C27_Witness ==
    /\ resp.op = "delete"
    /\ resp.status = 200
    /\ trig = "request"
    /\ isUpdating
    /\ Len(passes) = 1
    /\ passes[1].pc = "fetching"
    /\ IdsOf(passes[1].keyPairs) # DOMAIN store

\* C28: the snapshot a pass stores lists each credential id of the listing the
\* pass made at its start exactly once, as a usage record or as an error
\* record, and lists no other id, whatever the store holds when the pass ends.
C28_SnapshotOfListedKeys ==
    [][(PassEnded /\ lastError' = NULL) =>
          LET data == cachedData'[1].data
              listed == passes[1].keyPairs
          IN  /\ \A k \in 1..Len(listed) :
                    Cardinality({m \in 1..Len(data) : data[m].id = listed[k].id}) = 1
              /\ \A m \in 1..Len(data) :
                    /\ data[m].id \in IdsOf(listed)
                    /\ IsUsageRecord(data[m]) \/ IsErrorRecord(data[m])]_vars

\* The snapshot of two keys, the second listed first, is stored and no pass
\* is in flight.
C28_Witness ==
    /\ cachedData # NULL
    /\ Len(cachedData[1].data) = 2
    /\ cachedData[1].data[1].id = 2
    /\ cachedData[1].data[2].id = 1
    /\ IsUsageRecord(cachedData[1].data[1])
    /\ passes = <<>>
    /\ resp = NoResp

\* C29: in a snapshot totalRemaining is at least the total allowance minus the
\* total used, and the two are equal exactly when no usage record it lists
\* has used more than its allowance.
C29_RemainingAtLeastDifference ==
    (ag.pc = "done") =>
        LET us == UsageOf(ag.snapshot)
            totals == ag.snapshot.totals
            difference == totals.total_totalAllowance - totals.total_orgTotalTokensUsed
            over == \E i \in 1..Len(us) : us[i].orgTotalTokensUsed > us[i].totalAllowance
        IN  /\ totals.totalRemaining >= difference
            /\ totals.totalRemaining = difference <=> ~over

\* One key has used nothing of 3 and one has used 5 of 3: the totals differ by
\* 1 and totalRemaining is 3.
C29_Witness ==
    /\ ag.pc = "done"
    /\ Len(ag.results) = 2
    /\ IsUsageRecord(ag.results[1]) /\ IsUsageRecord(ag.results[2])
    /\ ag.results[1].orgTotalTokensUsed = 0 /\ ag.results[1].totalAllowance = 3
    /\ ag.results[2].orgTotalTokensUsed = 5 /\ ag.results[2].totalAllowance = 3
    /\ ag.snapshot.totals.total_totalAllowance - ag.snapshot.totals.total_orgTotalTokensUsed = 1
    /\ ag.snapshot.totals.totalRemaining = 3

Terminated(b) == b.pc \in {"done", "rejected"}

\* C30: with concurrency >= 1, when every call of processor settles a call of
\* batchProcess ends; it never calls processor twice for an item, and when it
\* returns it has called processor once for each item, in order. With
\* concurrency 0 and a list that is not empty it never ends: i stays 0 and
\* processor is never called.
C30_Termination ==
    /\ [](bp.concurrency >= 1 =>
             /\ Len(bp.calls) <= Len(bp.items)
             /\ \A m \in 1..Len(bp.calls) : bp.calls[m] = m
             /\ bp.pc = "done" => Len(bp.calls) = Len(bp.items))
    /\ []((bp.concurrency = 0 /\ bp.items # <<>>) =>
             (~Terminated(bp) /\ bp.i = 0 /\ bp.calls = <<>>))
    /\ (bp.concurrency >= 1) ~> Terminated(bp)

\* Concurrency 0 and two items: the loop has gone round three times, i is 0.
C30_Witness ==
    /\ bp.concurrency = 0
    /\ Len(bp.items) = 2
    /\ bp.pc = "sleep"
    /\ Len(bp.chunks) = 3
    /\ bp.delays = 3
    /\ bp.i = 0

\* What handleGetData takes for a stored error: a message that is not "".
ErrorStored(error) == error # NULL /\ error[1] # ""

\* C31: in every state in which requests are handled a snapshot or an error
\* message is stored; a step that clears the error message stores a snapshot
\* and no step clears the snapshot; so every GET /api/data is answered 200 or
\* 500, never 503.
C31_NeverUnavailable ==
    [][/\ phase' = "serving" => (cachedData' # NULL \/ ErrorStored(lastError'))
       /\ (lastError # NULL /\ lastError' = NULL) => cachedData' # NULL
       /\ cachedData # NULL => cachedData' # NULL
       /\ resp'.op = "getData" =>
             /\ phase = "serving"
             /\ resp'.status \in {200, 500}]_vars

\* A read during a refresh that was started after a failure over a stored
\* snapshot.
C31_Witness ==
    /\ resp.op = "getData"
    /\ resp.status = 200
    /\ lastError # NULL
    /\ isUpdating
    /\ phase = "serving"

\* The answer of a POST /api/keys/:id/refresh.
RefreshAnswered == resp'.op = "refreshKey"

\* C32 as stated: a POST /api/keys/:id/refresh is answered 404 when the id is
\* not in the store and 200 with a usage record or an error record of that id
\* when it is; the step that answers it, like every step of the handler,
\* leaves the snapshot, the error message, the flag, the passes and the store
\* as they were and calls no refresh, so a GET /api/data after it answers
\* what it answered before.
C32_Claim ==
    [][/\ \A id \in Ids :
             RefreshKeyBegin(id) =>
                 /\ id \notin DOMAIN store <=> resp'.status = 404
                 /\ id \in DOMAIN store => resp'.status \in {0, 200}
                 /\ UNCHANGED <<store, cachedData, lastError, isUpdating, passes>>
                 /\ trig' = "none"
       /\ \A r \in BagToSet(reqs) :
             RefreshKeyEnd(r) =>
                 /\ UNCHANGED <<store, cachedData, lastError, isUpdating, passes>>
                 /\ trig' = "none"
       /\ RefreshAnswered =>
             /\ resp'.status \in {200, 404}
             /\ resp'.status = 200 =>
                   /\ resp'.data # NULL
                   /\ IsUsageRecord(resp'.data[1]) \/ IsErrorRecord(resp'.data[1])
             /\ handleGetData' = handleGetData]_vars

====
